---- MODULE Spec2Model ----
(***************************************************************************)
(* ScarletScanner (src/app.py): the /scan and /find-markets handlers of    *)
(* the Flask application, with the helpers they call.                       *)
(*                                                                         *)
(* Each HTTP request is one atomic action: the handler runs to its return   *)
(* statement.  The inputs of a request (JSON body, replies of the product   *)
(* database, of the text-generation API, of the geocoder and of the POI     *)
(* service) are chosen by \E from bounded sets.  The state is the global    *)
(* `client` and the last request/response exchange.                         *)
(*                                                                         *)
(* Encodings.  A Python string is a sequence of one-character strings, so   *)
(* that `in`, lower(), upper() and strip() are computed.  A JSON value that *)
(* may be missing or null is a record [t, s] with t in "absent", "null",    *)
(* "str", "other".  Numbers are integers in a fixed decimal scale (named at  *)
(* each use); round() is round-half-to-even as in Python.                   *)
(***************************************************************************)
EXTENDS Integers, Sequences, FiniteSets, TLC

(* ------------------------------ strings -------------------------------- *)

LowerOf ==
  ("A" :> "a") @@ ("B" :> "b") @@ ("C" :> "c") @@ ("D" :> "d") @@ ("E" :> "e") @@ ("F" :> "f") @@ ("G" :> "g") @@ ("H" :> "h") @@ ("I" :> "i") @@ ("J" :> "j") @@ ("K" :> "k") @@ ("L" :> "l") @@ ("M" :> "m") @@ ("N" :> "n") @@ ("O" :> "o") @@ ("P" :> "p") @@ ("Q" :> "q") @@ ("R" :> "r") @@ ("S" :> "s") @@ ("T" :> "t") @@ ("U" :> "u") @@ ("V" :> "v") @@ ("W" :> "w") @@ ("X" :> "x") @@ ("Y" :> "y") @@ ("Z" :> "z")

UpperOf ==
  ("a" :> "A") @@ ("b" :> "B") @@ ("c" :> "C") @@ ("d" :> "D") @@ ("e" :> "E") @@ ("f" :> "F") @@ ("g" :> "G") @@ ("h" :> "H") @@ ("i" :> "I") @@ ("j" :> "J") @@ ("k" :> "K") @@ ("l" :> "L") @@ ("m" :> "M") @@ ("n" :> "N") @@ ("o" :> "O") @@ ("p" :> "P") @@ ("q" :> "Q") @@ ("r" :> "R") @@ ("s" :> "S") @@ ("t" :> "T") @@ ("u" :> "U") @@ ("v" :> "V") @@ ("w" :> "W") @@ ("x" :> "X") @@ ("y" :> "Y") @@ ("z" :> "Z")

\* str.lower()
lower(s) == [i \in 1..Len(s) |-> IF s[i] \in DOMAIN LowerOf THEN LowerOf[s[i]] ELSE s[i]]

\* str.upper()
upper(s) == [i \in 1..Len(s) |-> IF s[i] \in DOMAIN UpperOf THEN UpperOf[s[i]] ELSE s[i]]

\* the characters str.strip() removes
Whitespace == {" ", "\t", "\n"}

\* str.strip(): drop leading and trailing whitespace
strip(s) ==
  LET keep == {i \in 1..Len(s) : s[i] \notin Whitespace}
  IN  IF keep = {} THEN <<>>
      ELSE LET lo == CHOOSE i \in keep : \A j \in keep : i <= j
               hi == CHOOSE i \in keep : \A j \in keep : j <= i
           IN  SubSeq(s, lo, hi)

\* str.isdigit() (non-empty, decimal digits only)
isdigit(s) ==
  /\ Len(s) > 0
  /\ \A i \in 1..Len(s) : s[i] \in {"0","1","2","3","4","5","6","7","8","9"}

\* Python `sub in s` for strings
contains(s, sub) ==
  \E i \in 0..(Len(s) - Len(sub)) : \A j \in 1..Len(sub) : s[i + j] = sub[j]

\* the loop `for w in words: if w in s: ...; break`: does any keyword occur
any_in(words, s) == \E k \in 1..Len(words) : contains(s, words[k])

(* --------------------------- JSON values ------------------------------- *)

Absent == [t |-> "absent", s |-> <<>>]
Null == [t |-> "null", s |-> <<>>]
Str(s) == [t |-> "str", s |-> s]
\* a JSON value of another type (number, list, object) where text is expected
Other == [t |-> "other", s |-> <<>>]

\* dict.get(key, default): the default replaces a missing key only
get(v, default) == IF v.t = "absent" THEN default ELSE v

(* ---------------------- keyword tables of app.py ----------------------- *)

non_vegan_ingredients ==
  << <<"m","i","l","k">>, <<"c","r","e","a","m">>, <<"b","u","t","t","e","r">>, <<"c","h","e","e","s","e">>,
     <<"w","h","e","y">>, <<"l","a","c","t","o","s","e">>, <<"c","a","s","e","i","n">>,
     <<"y","o","g","u","r","t">>, <<"d","a","i","r","y">>, <<"e","g","g">>, <<"h","o","n","e","y">>,
     <<"g","e","l","a","t","i","n">>, <<"g","e","l","a","t","i","n","e">>, <<"m","e","a","t">>,
     <<"c","h","i","c","k","e","n">>, <<"b","e","e","f">>, <<"p","o","r","k">>, <<"f","i","s","h">>,
     <<"s","a","l","m","o","n">>, <<"t","u","n","a">>, <<"s","h","r","i","m","p">>,
     <<"s","h","e","l","l","f","i","s","h">>, <<"l","a","r","d">>, <<"t","a","l","l","o","w">>,
     <<"s","u","e","t">>, <<"a","l","b","u","m","i","n">>, <<"a","n","c","h","o","v","i","e","s">>,
     <<"c","a","v","i","a","r">>, <<"r","e","n","n","e","t">>, <<"i","s","i","n","g","l","a","s","s">>,
     <<"c","o","c","h","i","n","e","a","l">>, <<"c","a","r","m","i","n","e">>, <<"s","h","e","l","l","a","c">> >>

non_halal_ingredients ==
  << <<"p","o","r","k">>, <<"b","a","c","o","n">>, <<"h","a","m">>, <<"l","a","r","d">>,
     <<"g","e","l","a","t","i","n">>, <<"g","e","l","a","t","i","n","e">>, <<"a","l","c","o","h","o","l">>,
     <<"w","i","n","e">>, <<"b","e","e","r">>, <<"r","u","m">>, <<"v","o","d","k","a">>,
     <<"w","h","i","s","k","e","y">>, <<"e","t","h","a","n","o","l">>, <<"l","i","q","u","e","u","r">>,
     <<"s","a","k","e">>, <<"m","a","r","s","a","l","a">> >>

non_kosher_ingredients ==
  << <<"p","o","r","k">>, <<"b","a","c","o","n">>, <<"h","a","m">>, <<"l","a","r","d">>,
     <<"s","h","e","l","l","f","i","s","h">>, <<"s","h","r","i","m","p">>, <<"l","o","b","s","t","e","r">>,
     <<"c","r","a","b">>, <<"o","y","s","t","e","r">>, <<"c","l","a","m">>, <<"s","q","u","i","d">>,
     <<"o","c","t","o","p","u","s">>, <<"s","c","a","l","l","o","p">> >>

meat_ingredients ==
  << <<"m","e","a","t">>, <<"c","h","i","c","k","e","n">>, <<"b","e","e","f">>, <<"p","o","r","k">>,
     <<"f","i","s","h">>, <<"s","a","l","m","o","n">>, <<"t","u","n","a">>, <<"b","a","c","o","n">>,
     <<"h","a","m">>, <<"g","e","l","a","t","i","n">>, <<"g","e","l","a","t","i","n","e">> >>

gluten_ingredients ==
  << <<"w","h","e","a","t">>, <<"b","a","r","l","e","y">>, <<"r","y","e">>, <<"m","a","l","t">>,
     <<"g","l","u","t","e","n">>, <<"f","l","o","u","r">>, <<"b","r","e","a","d">>,
     <<"p","a","s","t","a">> >>

dairy_ingredients ==
  << <<"m","i","l","k">>, <<"l","a","c","t","o","s","e">>, <<"d","a","i","r","y">>,
     <<"c","r","e","a","m">>, <<"b","u","t","t","e","r">>, <<"c","h","e","e","s","e">>,
     <<"w","h","e","y">>, <<"c","a","s","e","i","n">>, <<"y","o","g","u","r","t">> >>

celiac_gluten_ingredients ==
  << <<"w","h","e","a","t">>, <<"b","a","r","l","e","y">>, <<"r","y","e">>, <<"m","a","l","t">>,
     <<"g","l","u","t","e","n">>, <<"f","l","o","u","r">>, <<"b","r","e","a","d">>,
     <<"p","a","s","t","a">>, <<"o","a","t","s">> >>

phosphorus_ingredients ==
  << <<"c","h","e","e","s","e">>, <<"m","i","l","k">>, <<"d","a","i","r","y">>, <<"c","o","l","a">>,
     <<"n","u","t","s">>, <<"b","e","a","n","s">>, <<"l","e","n","t","i","l","s">> >>

(* ------------------------------ numbers -------------------------------- *)

\* round(n / m) to an integer, ties to the even neighbour (Python round), n >= 0
RoundHalfEven(n, m) ==
  LET q == n \div m
      r == n % m
  IN  IF 2 * r < m THEN q
      ELSE IF 2 * r > m THEN q + 1
      ELSE IF q % 2 = 0 THEN q ELSE q + 1

RECURSIVE SumSeq(_)
\* sum(list)
SumSeq(s) == IF s = <<>> THEN 0 ELSE Head(s) + SumSeq(Tail(s))

(* ------------------------------- state --------------------------------- *)

VARIABLES
  client,   \* the module-level Groq client: TRUE when GROQ_API_KEY was set
  route,    \* the endpoint of the last request ("none" before the first)
  req,      \* the inputs of the last request: body and upstream replies
  status,   \* the HTTP status of the last response
  body,     \* the JSON object of the last response, a function of its keys
  calls,    \* how often each outbound call was issued during the last request
  exc,      \* the except clause that produced the last response, or "none"
  prev,     \* observer's note of the last 200 /scan response (SpecRepeat only)
  pool      \* one /scan request step by step: handler, executor, tasks (SpecPool)

vars == <<client, route, req, status, body, calls, exc, prev, pool>>

CallNames ==
  {"lookup", "nutri_summary", "eco_summary", "metrics", "tips", "alternatives",
   "geocode", "poi"}

NoCalls == [c \in CallNames |-> 0]

\* jsonify({'success': False, 'error': msg})
ErrorBody(msg) == [success |-> FALSE, error |-> msg]

(* ------------------------- /find-markets ------------------------------- *)

\* geocode_zipcode taking an empty result for a hit
geocode_zipcode_empty_hit(geo) ==
  IF geo.kind \in {"found", "empty"}
  THEN [found |-> TRUE, lat |-> geo.lat, lon |-> geo.lon]
  ELSE [found |-> FALSE, lat |-> 0, lon |-> 0]

\* geocode_zipcode: the coordinates, or None (found = FALSE) on an empty
\* result, an HTTP error or any exception
geocode_zipcode(geo) ==
  IF geo.kind = "found" THEN [found |-> TRUE, lat |-> geo.lat, lon |-> geo.lon]
  ELSE [found |-> FALSE, lat |-> 0, lon |-> 0]

\* list.sort(key=distance) is stable: insert m after the entries not farther
RECURSIVE insert_sorted(_, _)
insert_sorted(m, sorted) ==
  IF sorted = <<>> THEN <<m>>
  ELSE IF m.distance < Head(sorted).distance THEN <<m>> \o sorted
  ELSE <<Head(sorted)>> \o insert_sorted(m, Tail(sorted))

\* the list left in the order of the reply
sort_by_distance_skipped(ms) == ms

RECURSIVE sort_by_distance(_)
sort_by_distance(ms) ==
  IF ms = <<>> THEN <<>>
  ELSE insert_sorted(ms[Len(ms)], sort_by_distance(SubSeq(ms, 1, Len(ms) - 1)))

\* markets[:10]
TopN == 10

\* search_farmers_markets.  An element carries `dist100`, the haversine
\* distance R * c of lines 598-605 in hundredths of a mile; the market gets
\* round(distance, 1), in tenths.  An element without coordinates makes
\* radians(None) raise, and any exception returns [].
search_farmers_markets(poi) ==
  IF poi.kind # "ok" THEN <<>>
  ELSE IF \E i \in 1..Len(poi.elements) : ~poi.elements[i].has_coords THEN <<>>
  ELSE LET markets == [i \in 1..Len(poi.elements) |->
                         [id |-> poi.elements[i].id,
                          distance |-> RoundHalfEven(poi.elements[i].dist100, 10)]]
           sorted == sort_by_distance(markets)
       IN  SubSeq(sorted, 1, IF Len(sorted) < TopN THEN Len(sorted) ELSE TopN)

\* the zipcode test of line 641
valid_zipcode(z) == ~(z = <<>> \/ Len(z) # 5 \/ ~isdigit(z))

\* find_markets: the response [status, body, exc, calls] for a request body
\* `data` and the replies `geo`, `poi` the two services would give
find_markets(data, geo, poi) ==
  IF data.t # "dict" \/ get(data.zipcode, Str(<<>>)).t # "str"
  THEN \* None.get(...) or a non-string .strip(): AttributeError, line 666
       [status |-> 500, exc |-> "Exception", calls |-> NoCalls,
        body |-> ErrorBody("An error occurred while searching for markets")]
  ELSE LET zipcode == strip(get(data.zipcode, Str(<<>>)).s)
       IN  IF ~valid_zipcode(zipcode)
           THEN [status |-> 400, exc |-> "none", calls |-> NoCalls,
                 body |-> ErrorBody("Please enter a valid 5-digit ZIP code")]
           ELSE LET coords == geocode_zipcode(geo)
                    c1 == [NoCalls EXCEPT !["geocode"] = 1]
                IN  IF ~coords.found
                    THEN [status |-> 404, exc |-> "none", calls |-> c1,
                          body |-> ErrorBody("Could not find location for this ZIP code")]
                    ELSE LET markets == search_farmers_markets(poi)
                         IN  [status |-> 200, exc |-> "none",
                              calls |-> [c1 EXCEPT !["poi"] = 1],
                              body |-> [success |-> TRUE, zipcode |-> zipcode,
                                        location |-> [lat |-> coords.lat, lon |-> coords.lon],
                                        markets |-> markets, count |-> Len(markets)]]

(* ------------------------------- /scan --------------------------------- *)

N_A == <<"N","/","A">>

\* round_nutrient with 0 instead of 'N/A' in the except clause
round_nutrient_zero_on_error(value) ==
  IF value.t \in {"num", "numstr"}
  THEN [na |-> FALSE, v |-> RoundHalfEven(value.v, 10)]
  ELSE IF value.t \in {"absent", "null"} THEN [na |-> TRUE, v |-> 0]
  ELSE [na |-> FALSE, v |-> 0]

\* round_nutrient (lines 715-721).  A value is [t, v]: missing key and null
\* give None; a number or a numeric string is v thousandths, rounded to two
\* decimals (hundredths); anything else fails float() and gives 'N/A'.
round_nutrient(value) ==
  IF value.t \in {"num", "numstr"}
  THEN [na |-> FALSE, v |-> RoundHalfEven(value.v, 10)]
  ELSE [na |-> TRUE, v |-> 0]

\* lines 747-769 without the override of lines 773-778
Certifications_no_override(ingredients_str) ==
  [vegan |-> ~any_in(non_vegan_ingredients, ingredients_str),
   halal |-> ~any_in(non_halal_ingredients, ingredients_str),
   kosher |-> ~any_in(non_kosher_ingredients, ingredients_str)]

\* lines 747-778: the three flags from the lower-cased ingredient text
Certifications(ingredients_str) ==
  IF ingredients_str = <<>> \/ ingredients_str = <<"n","o","t"," ","a","v","a","i","l","a","b","l","e">>
  THEN [vegan |-> FALSE, halal |-> FALSE, kosher |-> FALSE]
  ELSE [vegan |-> ~any_in(non_vegan_ingredients, ingredients_str),
        halal |-> ~any_in(non_halal_ingredients, ingredients_str),
        kosher |-> ~any_in(non_kosher_ingredients, ingredients_str)]

\* generate_score_summary: the stripped reply, or "<type>: <grade>" when there
\* is no client or the call (or reading its content) raises
generate_score_summary(cl, score_type, grade, reply) ==
  IF cl /\ reply.kind = "ok" THEN strip(reply.text)
  ELSE score_type \o <<":", " ">> \o grade

required_metrics ==
  <<"greenhouse_gas", "processing", "water_usage", "land_use",
    "soil_health", "labor_risk", "animal_welfare", "biodiversity">>

RequiredMetricSet == {required_metrics[i] : i \in 1..Len(required_metrics)}

\* lines 365-374: one metric of the decoded reply, made complete
ensure_metric(e) ==
  IF e.t # "dict"
  THEN [has_score |-> TRUE, score |-> [t |-> "num", v |-> 5],
        has_explanation |-> TRUE, explanation |-> "Data unavailable"]
  ELSE IF ~e.has_score
  THEN [has_score |-> TRUE, score |-> [t |-> "num", v |-> 5],
        has_explanation |-> e.has_explanation, explanation |-> e.explanation]
  ELSE IF ~e.has_explanation
  THEN [has_score |-> TRUE, score |-> e.score,
        has_explanation |-> TRUE, explanation |-> "Assessment based on category"]
  ELSE [has_score |-> TRUE, score |-> e.score,
        has_explanation |-> TRUE, explanation |-> e.explanation]

\* lines 383-394
default_metrics ==
  [k \in RequiredMetricSet |->
     [has_score |-> TRUE, score |-> [t |-> "num", v |-> 5],
      has_explanation |-> TRUE, explanation |-> "Unable to analyze - default value"]]

\* generate_sustainability_metrics: None without a client; the defaults when
\* the call raises, the text does not decode, or the decoded value is not an
\* object (the loop then raises); otherwise the completed object
generate_sustainability_metrics(cl, reply) ==
  IF ~cl THEN [none |-> TRUE, m |-> default_metrics]
  ELSE IF reply.kind # "dict" THEN [none |-> FALSE, m |-> default_metrics]
  ELSE [none |-> FALSE, m |-> [k \in RequiredMetricSet |-> ensure_metric(reply.m[k])]]

\* generate_waste_reduction_tips and generate_product_alternatives: None
\* without a client or on any exception, else data.get(key, [])
generate_list(cl, reply) ==
  IF cl /\ reply.kind = "dict"
  THEN [none |-> FALSE, n |-> IF reply.has_key THEN reply.n ELSE 0]
  ELSE [none |-> TRUE, n |-> 0]

generate_waste_reduction_tips(cl, reply) == generate_list(cl, reply)

generate_product_alternatives(cl, reply) == generate_list(cl, reply)

\* str.find(sub, start): the lowest 0-based index >= start where sub occurs,
\* or -1
find(s, sub, start) ==
  LET hits == {i \in start..(Len(s) - Len(sub)) :
                 \A j \in 1..Len(sub) : s[i + j] = sub[j]}
  IN  IF hits = {} THEN -1 ELSE CHOOSE i \in hits : \A k \in hits : i <= k

\* s[a:b] for a >= 0: a negative b counts from the end
slice(s, a, b) ==
  LET stop == IF b < 0 THEN (IF Len(s) + b < 0 THEN 0 ELSE Len(s) + b)
              ELSE (IF b > Len(s) THEN Len(s) ELSE b)
  IN  SubSeq(s, a + 1, stop)

\* the backquote character (a TLA+ string cannot hold it)
Backquote == "^"

\* the fence of a code block, and the fence with its language tag
Fence == <<Backquote, Backquote, Backquote>>

FenceJson == Fence \o <<"j", "s", "o", "n">>

\* lines 121-129, 282-290 and 345-353: the text handed to json.loads for the
\* content of a reply
extract_json(content) ==
  LET response_text == strip(content)
  IN  IF contains(response_text, FenceJson)
      THEN LET json_start == find(response_text, FenceJson, 0) + 7
               json_end == find(response_text, Fence, json_start)
           IN  strip(slice(response_text, json_start, json_end))
      ELSE IF contains(response_text, Fence)
      THEN LET json_start == find(response_text, Fence, 0) + 3
               json_end == find(response_text, Fence, json_start)
           IN  strip(slice(response_text, json_start, json_end))
      ELSE response_text

\* json.loads over the characters of ReplyContents: the only documents are the
\* empty object with optional whitespace around and inside
json_loads_ok(text) ==
  SelectSeq(text, LAMBDA c : c \notin Whitespace) = <<"{", "}">>

\* the reply record of the content of a reply: an empty object when the
\* extracted text decodes, no JSON otherwise
reply_of_content(parser, content) ==
  LET kind == IF json_loads_ok(extract_json(content)) THEN "dict" ELSE "garbage"
  IN  IF parser = "metrics"
      THEN [kind |-> kind,
            m |-> [k \in RequiredMetricSet |->
                     [t |-> "absent", has_score |-> FALSE, score |-> [t |-> "num", v |-> 0],
                      has_explanation |-> FALSE, explanation |-> ""]]]
      ELSE [kind |-> kind, has_key |-> FALSE, n |-> 0]

\* the result of one of the three parsers for the content of its reply
parse_reply(cl, parser, content) ==
  CASE parser = "metrics" ->
         generate_sustainability_metrics(cl, reply_of_content(parser, content))
    [] parser = "tips" ->
         generate_waste_reduction_tips(cl, reply_of_content(parser, content))
    [] OTHER ->
         generate_product_alternatives(cl, reply_of_content(parser, content))

\* the fifth action chosen at a score of 55 instead of 70
generate_community_impact_actions_at_55(packaging_text, categories_text, sustainability_score10) ==
  LET packaging == lower(packaging_text)
      categories == lower(categories_text)
  IN  << IF contains(packaging, <<"p","l","a","s","t","i","c">>) \/ contains(packaging, <<"b","o","t","t","l","e">>)
         THEN [category |-> "Recycling", impact_score |-> 8,
               action |-> "Properly recycle packaging after use"]
         ELSE IF contains(packaging, <<"c","a","r","d","b","o","a","r","d">>)
                 \/ contains(packaging, <<"p","a","p","e","r">>) \/ contains(packaging, <<"b","o","x">>)
         THEN [category |-> "Recycling", impact_score |-> 7,
               action |-> "Flatten and recycle cardboard packaging"]
         ELSE [category |-> "Recycling", impact_score |-> 7,
               action |-> "Check local recycling guidelines for this packaging"],
         [category |-> "Local Sourcing", impact_score |-> 9,
          action |-> "Choose locally-produced alternatives when available"],
         IF contains(categories, <<"f","o","o","d">>) \/ contains(categories, <<"b","e","v","e","r","a","g","e">>)
         THEN [category |-> "Food Waste", impact_score |-> 8,
               action |-> "Plan meals to use entire product before expiration"]
         ELSE [category |-> "Waste Reduction", impact_score |-> 7,
               action |-> "Buy only what you need to minimize waste"],
         [category |-> "Reuse", impact_score |-> 8,
          action |-> "Bring reusable bags and containers to store"],
         IF sustainability_score10 >= 550
         THEN [category |-> "Community Impact", impact_score |-> 6,
               action |-> "Share sustainable product finds with friends"]
         ELSE [category |-> "Community Impact", impact_score |-> 7,
               action |-> "Support brands improving sustainability practices"] >>

\* the first four actions only (they do not depend on the score)
generate_community_impact_actions_first_four(packaging_text, categories_text, sustainability_score10) ==
  SubSeq(generate_community_impact_actions_at_55(packaging_text, categories_text,
                                                 sustainability_score10), 1, 4)

\* generate_community_impact_actions; the score is in tenths (70 is 700)
generate_community_impact_actions(packaging_text, categories_text, sustainability_score10) ==
  LET packaging == lower(packaging_text)
      categories == lower(categories_text)
  IN  << IF contains(packaging, <<"p","l","a","s","t","i","c">>) \/ contains(packaging, <<"b","o","t","t","l","e">>)
         THEN [category |-> "Recycling", impact_score |-> 8,
               action |-> "Properly recycle packaging after use"]
         ELSE IF contains(packaging, <<"c","a","r","d","b","o","a","r","d">>)
                 \/ contains(packaging, <<"p","a","p","e","r">>) \/ contains(packaging, <<"b","o","x">>)
         THEN [category |-> "Recycling", impact_score |-> 7,
               action |-> "Flatten and recycle cardboard packaging"]
         ELSE [category |-> "Recycling", impact_score |-> 7,
               action |-> "Check local recycling guidelines for this packaging"],
         [category |-> "Local Sourcing", impact_score |-> 9,
          action |-> "Choose locally-produced alternatives when available"],
         IF contains(categories, <<"f","o","o","d">>) \/ contains(categories, <<"b","e","v","e","r","a","g","e">>)
         THEN [category |-> "Food Waste", impact_score |-> 8,
               action |-> "Plan meals to use entire product before expiration"]
         ELSE [category |-> "Waste Reduction", impact_score |-> 7,
               action |-> "Buy only what you need to minimize waste"],
         [category |-> "Reuse", impact_score |-> 8,
          action |-> "Bring reusable bags and containers to store"],
         IF sustainability_score10 >= 700
         THEN [category |-> "Community Impact", impact_score |-> 6,
               action |-> "Share sustainable product finds with friends"]
         ELSE [category |-> "Community Impact", impact_score |-> 7,
               action |-> "Support brands improving sustainability practices"] >>

\* one warning, or none
warn(cond, title, severity) ==
  IF cond THEN << [title |-> title, severity |-> severity] >> ELSE <<>>

\* the two tests as two `if`s: above `hi` both warnings
threshold_warning_both(x, hi, mid, hi_title, mid_title) ==
  warn(~x.na /\ x.v > hi, hi_title, "high")
    \o warn(~x.na /\ x.v > mid, mid_title, "medium")

\* high above `hi`, else medium above `mid`, else nothing; x is [na, v]
threshold_warning(x, hi, mid, hi_title, mid_title) ==
  IF ~x.na /\ x.v > hi THEN warn(TRUE, hi_title, "high")
  ELSE warn(~x.na /\ x.v > mid, mid_title, "medium")

\* check_health_warnings.  Nutrient values are hundredths of a gram; the salt
\* value is compared in 1e-6 g so that sodium * 2.5 / 1000 stays an integer.
check_health_warnings(ingredients_text, certifications, nutriments, dietary, health) ==
  LET ingredients_str == lower(ingredients_text)
      salt_value ==
        IF ~nutriments.salt.na THEN [na |-> FALSE, v |-> nutriments.salt.v * 10000]
        ELSE IF ~nutriments.sodium.na THEN [na |-> FALSE, v |-> nutriments.sodium.v * 25]
        ELSE [na |-> FALSE, v |-> 0]
  IN  warn("vegan" \in dietary /\ ~certifications.vegan, "Not Vegan", "high")
      \o warn("vegetarian" \in dietary /\ any_in(meat_ingredients, ingredients_str),
              "Not Vegetarian", "high")
      \o warn("halal" \in dietary /\ ~certifications.halal, "May Not Be Halal", "high")
      \o warn("kosher" \in dietary /\ ~certifications.kosher, "May Not Be Kosher", "high")
      \o warn("gluten_free" \in dietary /\ any_in(gluten_ingredients, ingredients_str),
              "Contains Gluten", "high")
      \o warn("lactose_free" \in dietary /\ any_in(dairy_ingredients, ingredients_str),
              "Contains Lactose", "high")
      \o (IF "diabetes" \in health
          THEN threshold_warning(nutriments.sugars, 1000, 500,
                                 "High Sugar Content", "Moderate Sugar Content")
          ELSE <<>>)
      \o (IF "hypertension" \in health
          THEN threshold_warning(salt_value, 1500000, 750000,
                                 "High Sodium Content", "Moderate Sodium Content")
          ELSE <<>>)
      \o (IF "heart_disease" \in health
          THEN threshold_warning(nutriments.saturated_fat, 500, 250,
                                 "High Saturated Fat", "Moderate Saturated Fat")
          ELSE <<>>)
      \o warn("celiac" \in health /\ any_in(celiac_gluten_ingredients, ingredients_str),
              "Contains Gluten - Unsafe for Celiac Disease", "high")
      \o (IF "kidney_disease" \in health
          THEN warn(~nutriments.proteins.na /\ nutriments.proteins.v > 2000,
                    "High Protein Content", "medium")
               \o warn(any_in(phosphorus_ingredients, ingredients_str),
                       "May Contain High Phosphorus", "medium")
          ELSE <<>>)

\* the response of an except clause of scan_barcode (lines 882-899)
Raised(clause, cs) ==
  [status |-> 500, exc |-> clause, calls |-> cs,
   body |-> ErrorBody(CASE clause = "Timeout" -> "Request timed out. Please try again."
                        [] clause = "RequestException" ->
                             "Network error: Unable to fetch product data"
                        [] OTHER -> "An unexpected error occurred")]

\* the five enrichment calls, each issued a second time
EnrichmentCalls_retried(cl, cs) ==
  [c \in CallNames |->
     IF cl /\ c \in {"nutri_summary", "eco_summary", "metrics", "tips", "alternatives"}
     THEN 2 ELSE cs[c]]

\* the five enrichment calls of lines 811-824; each is issued only when the
\* client exists
EnrichmentCalls(cl, cs) ==
  IF cl
  THEN [c \in CallNames |->
          IF c \in {"nutri_summary", "eco_summary", "metrics", "tips", "alternatives"}
          THEN 1 ELSE cs[c]]
  ELSE cs

\* the nutrient value of the upstream product: product.get('nutriments',
\* {}).get(field)
nutriment(product, field) ==
  IF product.nutriments.t = "absent" THEN [t |-> "absent", v |-> 0]
  ELSE product.nutriments.f[field]

\* lines 826-854 without the combined score of lines 856-858
score_fields_without_combined(metrics, packaging, categories) ==
  LET scores == [i \in 1..Len(required_metrics) |->
                   IF metrics[required_metrics[i]].has_score
                   THEN metrics[required_metrics[i]].score.v ELSE 0]
      overall_score == RoundHalfEven(SumSeq(scores) * 100, Len(scores))
      community_actions ==
        generate_community_impact_actions(packaging, categories, overall_score)
      impact_scores == [i \in 1..Len(community_actions) |->
                          community_actions[i].impact_score]
      community_impact_score ==
        RoundHalfEven(SumSeq(impact_scores) * 100, Len(impact_scores))
  IN  [sustainability_metrics |-> metrics,
       overall_sustainability_score |-> overall_score,
       community_impact_actions |-> community_actions,
       community_impact_score |-> community_impact_score]

\* lines 826-858: the score fields added when the metrics are truthy (an
\* object with the 8 keys always is)
score_fields(metrics, packaging, categories) ==
  LET scores == [i \in 1..Len(required_metrics) |->
                   IF metrics[required_metrics[i]].has_score
                   THEN metrics[required_metrics[i]].score.v ELSE 0]
      overall_score == RoundHalfEven(SumSeq(scores) * 100, Len(scores))
      community_actions ==
        generate_community_impact_actions(packaging, categories, overall_score)
      impact_scores == [i \in 1..Len(community_actions) |->
                          community_actions[i].impact_score]
      community_impact_score ==
        RoundHalfEven(SumSeq(impact_scores) * 100, Len(impact_scores))
  IN  [sustainability_metrics |-> metrics,
       overall_sustainability_score |-> overall_score,
       community_impact_actions |-> community_actions,
       community_impact_score |-> community_impact_score,
       combined_overall_score |->
         RoundHalfEven(overall_score + community_impact_score, 2)]

\* an optional field of the response: present only when `cond`
field_if(cond, key, value) == IF cond THEN key :> value ELSE << >>

\* line 724 with the categories of line 725 mixed into the text searched
ingredients_str_with_categories(product) ==
  lower(get(product.ingredients_text, Str(<<>>)).s \o <<" ">>
          \o get(product.categories, Str(<<>>)).s)

\* line 724: product.get('ingredients_text', '').lower(), once it is known
\* to be a string
ingredients_str_of(product) == lower(get(product.ingredients_text, Str(<<>>)).s)

\* scan_barcode from line 712 on: the product was found
scan_found(cl, barcode, filters, product, en, cs0) ==
  IF get(product.ingredients_text, Str(<<>>)).t # "str"
     \/ get(product.categories, Str(<<>>)).t # "str"
     \/ product.nutriments.t \notin {"absent", "dict"}
     \/ get(product.nutriscore_grade, Str(<<>>)).t # "str"
     \/ get(product.ecoscore_grade, Str(<<>>)).t # "str"
  THEN \* .lower(), .get() or .upper() of None: AttributeError, lines 724-805
       Raised("Exception", cs0)
  ELSE
  LET ingredients_str == ingredients_str_of(product)
      certifications == Certifications(ingredients_str)
      nutriscore_grade == upper(get(product.nutriscore_grade, Str(<<>>)).s)
      ecoscore_grade == upper(get(product.ecoscore_grade, Str(<<>>)).s)
      name == get(product.product_name, Str(<<"U","n","k","n","o","w","n"," ","P","r","o","d","u","c","t">>))
      product_info ==
        [success |-> TRUE,
         barcode |-> barcode,
         name |-> name,
         brand |-> get(product.brands, Str(<<"U","n","k","n","o","w","n"," ","B","r","a","n","d">>)),
         image |-> get(product.image_url, Str(<<>>)),
         categories |-> get(product.categories, Str(<<>>)),
         ingredients |-> get(product.ingredients_text, Str(<<"N","o","t"," ","a","v","a","i","l","a","b","l","e">>)),
         labels |-> get(product.labels, Str(<<>>)),
         packaging |-> get(product.packaging, Str(<<"U","n","k","n","o","w","n">>)),
         allergens |-> get(product.allergens, Str(<<"N","o","n","e"," ","s","p","e","c","i","f","i","e","d">>)),
         certifications |-> certifications,
         nutriments |->
           [energy |-> round_nutrient(nutriment(product, "energy-kcal_100g")),
            fat |-> round_nutrient(nutriment(product, "fat_100g")),
            carbohydrates |-> round_nutrient(nutriment(product, "carbohydrates_100g")),
            proteins |-> round_nutrient(nutriment(product, "proteins_100g")),
            salt |-> round_nutrient(nutriment(product, "salt_100g")),
            fiber |-> round_nutrient(nutriment(product, "fiber_100g"))],
         nutriscore_grade |-> Str(IF nutriscore_grade # <<>> THEN nutriscore_grade ELSE N_A),
         ecoscore_grade |-> Str(IF ecoscore_grade # <<>> THEN ecoscore_grade ELSE N_A)]
      cs == EnrichmentCalls(cl, cs0)
      nutriscore_summary ==
        generate_score_summary(cl, <<"N","u","t","r","i","-","S","c","o","r","e">>,
          IF nutriscore_grade # <<>> THEN nutriscore_grade ELSE <<"N","o","t"," ","A","v","a","i","l","a","b","l","e">>,
          en.nutri)
      ecoscore_summary ==
        generate_score_summary(cl, <<"E","c","o","-","S","c","o","r","e">>,
          IF ecoscore_grade # <<>> THEN ecoscore_grade ELSE <<"N","o","t"," ","A","v","a","i","l","a","b","l","e">>,
          en.eco)
      sustainability_metrics == generate_sustainability_metrics(cl, en.metrics)
      waste_tips == generate_waste_reduction_tips(cl, en.tips)
      alternatives == generate_product_alternatives(cl, en.alternatives)
      nutriments_for_check ==
        [sugars |-> round_nutrient(nutriment(product, "sugars_100g")),
         salt |-> round_nutrient(nutriment(product, "salt_100g")),
         sodium |-> round_nutrient(nutriment(product, "sodium_100g")),
         saturated_fat |-> round_nutrient(nutriment(product, "saturated-fat_100g")),
         proteins |-> round_nutrient(nutriment(product, "proteins_100g"))]
  IN  IF ~sustainability_metrics.none
         /\ \E k \in RequiredMetricSet : sustainability_metrics.m[k].score.t # "num"
      THEN \* sum(scores) over a string or None: TypeError, line 843
           Raised("Exception", cs)
      ELSE IF ~sustainability_metrics.none /\ product_info.packaging.t # "str"
      THEN \* None.lower() in generate_community_impact_actions, line 148
           Raised("Exception", cs)
      ELSE IF filters.t \notin {"absent", "dict"}
      THEN \* filters.get of a non-object, line 408
           Raised("Exception", cs)
      ELSE
      LET health_warnings ==
            check_health_warnings(product_info.ingredients.s, certifications,
              nutriments_for_check,
              IF filters.t = "dict" THEN filters.dietary ELSE {},
              IF filters.t = "dict" THEN filters.health ELSE {})
      IN  [status |-> 200, exc |-> "none", calls |-> cs,
           body |->
             product_info
               @@ [nutriscore_summary |-> nutriscore_summary,
                   ecoscore_summary |-> ecoscore_summary]
               @@ (IF sustainability_metrics.none THEN << >>
                   ELSE score_fields(sustainability_metrics.m,
                                     product_info.packaging.s, product_info.categories.s))
               @@ field_if(~waste_tips.none /\ waste_tips.n > 0,
                           "waste_reduction_tips", waste_tips.n)
               @@ field_if(~alternatives.none /\ alternatives.n > 0,
                           "product_alternatives", alternatives.n)
               @@ field_if(health_warnings # <<>>, "health_warnings", health_warnings)]

\* line 684 without the test for the key
no_barcode_key_unchecked(data) == data.t # "dict"

\* line 684: `not data or 'barcode' not in data`
no_barcode(data) == data.t # "dict" \/ data.barcode.t = "absent"

\* scan_barcode (lines 681-710): the checks before the product is read
scan_barcode(cl, data, up, en) ==
  IF no_barcode(data)
  THEN [status |-> 400, exc |-> "none", calls |-> NoCalls,
        body |-> ErrorBody("No barcode provided")]
  ELSE IF data.barcode.t # "str"
  THEN \* .strip() of a value that is not a string: AttributeError
       Raised("Exception", NoCalls)
  ELSE IF strip(data.barcode.s) = <<>>
  THEN [status |-> 400, exc |-> "none", calls |-> NoCalls,
        body |-> ErrorBody("Barcode cannot be empty")]
  ELSE LET cs == [NoCalls EXCEPT !["lookup"] = 1]
       IN  IF up.kind = "timeout" THEN Raised("Timeout", cs)
           ELSE IF up.kind \in {"connection", "http_error"}
           THEN Raised("RequestException", cs)
           ELSE IF up.kind # "found"
           THEN [status |-> 404, exc |-> "none", calls |-> cs,
                 body |-> ErrorBody("Product not found in database")]
           ELSE scan_found(cl, strip(data.barcode.s), data.filters, up.product, en, cs)

(* --------------------------- inputs of /scan --------------------------- *)

\* longest barcode string tried
MaxBarcodeLen == 2

BarcodeStrings == UNION {[1..n -> {"7", " "}] : n \in 0..MaxBarcodeLen}

\* data.get('filters', ...): missing, not an object, or lists of names
\* ("keto" is a name the handler does not know)
FewFilters ==
  {[t |-> "absent", dietary |-> {}, health |-> {}],
   [t |-> "other", dietary |-> {}, health |-> {}],
   [t |-> "dict", dietary |-> {"vegan", "vegetarian"}, health |-> {}],
   [t |-> "dict", dietary |-> {"keto"}, health |-> {"diabetes"}]}

NoFilters == [t |-> "absent", dietary |-> {}, health |-> {}]

\* request.get_json(): no object, or an object whose 'barcode' is missing,
\* null, not a string, or a string
ScanBodies ==
  {[t |-> "null", barcode |-> Absent, filters |-> NoFilters]}
    \cup {[t |-> "dict", barcode |-> b, filters |-> f] :
            b \in {Absent, Null, Other} \cup {Str(s) : s \in BarcodeStrings},
            f \in FewFilters}

GoodBody(f) == [t |-> "dict", barcode |-> Str(<<"7">>), filters |-> f]

\* the functions on `keys` that are `good` except at no more than `max` keys,
\* where they take a value of `odd`
Patched(keys, good, odd, max) ==
  UNION {{[k \in keys |-> IF k \in S THEN a[k] ELSE good] : a \in [S -> odd]} :
           S \in {T \in SUBSET keys : Cardinality(T) <= max}}

NutrientFields ==
  {"energy-kcal_100g", "fat_100g", "carbohydrates_100g", "proteins_100g",
   "salt_100g", "fiber_100g", "sugars_100g", "sodium_100g", "saturated-fat_100g"}

\* a nutrient upstream gives as a number: 1.125 (thousandths)
GoodNutrient == [t |-> "num", v |-> 1125]

\* the ways a nutrient can be off: missing, null, a numeric string ("2.5"),
\* a non-numeric string, a list or object
OddNutrients ==
  {[t |-> "absent", v |-> 0], [t |-> "null", v |-> 0], [t |-> "numstr", v |-> 2500],
   [t |-> "badstr", v |-> 0], [t |-> "other", v |-> 0]}

\* how many nutrients of one product are off at most
MaxOddNutrients == 1

NutrimentInputs ==
  {[t |-> "absent", f |-> [k \in NutrientFields |-> GoodNutrient]],
   [t |-> "null", f |-> [k \in NutrientFields |-> GoodNutrient]]}
    \cup {[t |-> "dict", f |-> f] : f \in Patched(NutrientFields, GoodNutrient,
                                                    OddNutrients, MaxOddNutrients)}

BaseProduct ==
  [product_name |-> Str(<<"C","o","l","a">>), brands |-> Absent, image_url |-> Absent,
   categories |-> Str(<<"B","e","v","e","r","a","g","e","s">>),
   ingredients_text |-> Str(<<"W","a","t","e","r",","," ","S","u","g","a","r">>),
   labels |-> Absent,
   packaging |-> Str(<<"P","l","a","s","t","i","c"," ","b","o","t","t","l","e">>),
   allergens |-> Absent,
   nutriscore_grade |-> Str(<<"e">>), ecoscore_grade |-> Str(<<"B">>),
   nutriments |-> [t |-> "dict", f |-> [k \in NutrientFields |-> GoodNutrient]]]

\* api_data.get('product', {}) when upstream sends no product object
EmptyProduct ==
  [product_name |-> Absent, brands |-> Absent, image_url |-> Absent,
   categories |-> Absent, ingredients_text |-> Absent, labels |-> Absent,
   packaging |-> Absent, allergens |-> Absent,
   nutriscore_grade |-> Absent, ecoscore_grade |-> Absent,
   nutriments |-> [t |-> "absent", f |-> [k \in NutrientFields |-> GoodNutrient]]]

IngredientTexts ==
  {Absent, Null, Str(<<>>),
   Str(<<"W","a","t","e","r",","," ","S","u","g","a","r">>),
   Str(<<"W","h","o","l","e"," ","M","I","L","K">>),
   Str(<<"g","r","a","h","a","m"," ","f","l","o","u","r">>),
   Str(<<"P","o","r","k"," ","g","e","l","a","t","i","n">>),
   Str(<<"s","h","r","i","m","p">>),
   Str(<<"r","e","d"," ","w","i","n","e">>),
   Str(<<"N","o","t"," ","a","v","a","i","l","a","b","l","e">>)}

CategoryTexts ==
  {Absent, Null, Str(<<"B","e","v","e","r","a","g","e","s">>),
   Str(<<"M","i","l","k">>)}

PackagingTexts ==
  {Absent, Null, Str(<<"P","l","a","s","t","i","c"," ","b","o","t","t","l","e">>),
   Str(<<"c","a","r","d","b","o","a","r","d">>)}

Grades == {Absent, Null, Str(<<>>), Str(<<"a">>), Str(<<"E">>)}

\* the products tried: the base product with its texts, its grades, its
\* nutriments or its packaging replaced, and the empty product
Products ==
  {[BaseProduct EXCEPT !.ingredients_text = t, !.categories = c] :
     t \in IngredientTexts, c \in CategoryTexts}
    \cup {[BaseProduct EXCEPT !.nutriscore_grade = n, !.ecoscore_grade = e] :
            n \in Grades, e \in Grades}
    \cup {[BaseProduct EXCEPT !.nutriments = n] : n \in NutrimentInputs}
    \cup {[BaseProduct EXCEPT !.packaging = p] : p \in PackagingTexts}
    \cup {EmptyProduct}

\* the product database: a timeout, a connection error, an HTTP error status,
\* an answer with status 0 (unknown barcode), or the product
LookupFailures ==
  {[kind |-> k, product |-> EmptyProduct] :
     k \in {"timeout", "connection", "http_error", "status0"}}

Found(p) == [kind |-> "found", product |-> p]

UnaskedLookup == [kind |-> "unasked", product |-> EmptyProduct]

\* a complete metric of a reply
GoodMetric ==
  [t |-> "dict", has_score |-> TRUE, score |-> [t |-> "num", v |-> 7],
   has_explanation |-> TRUE, explanation |-> "from the reply"]

\* the ways a metric of a reply can be off: missing, not an object, an object
\* without score and/or explanation, a score that is a string, another
\* score, a score on a scale of 100
OddMetrics ==
  {[GoodMetric EXCEPT !.t = "absent"],
   [GoodMetric EXCEPT !.t = "nondict"],
   [GoodMetric EXCEPT !.has_score = FALSE, !.has_explanation = FALSE],
   [GoodMetric EXCEPT !.has_score = FALSE],
   [GoodMetric EXCEPT !.has_explanation = FALSE],
   [GoodMetric EXCEPT !.score = [t |-> "str", v |-> 0]],
   [GoodMetric EXCEPT !.score = [t |-> "num", v |-> 10]],
   [GoodMetric EXCEPT !.score = [t |-> "num", v |-> 50]]}

\* how many metrics of one reply are off at most
MaxOddMetrics == 1

GoodMetrics == [kind |-> "dict", m |-> [k \in RequiredMetricSet |-> GoodMetric]]

\* the reply to the metrics prompt: the call raises, the text does not decode,
\* it decodes to something that is not an object, or to an object
MetricsReplies ==
  {[kind |-> k, m |-> GoodMetrics.m] : k \in {"raise", "garbage", "nondict"}}
    \cup {[kind |-> "dict", m |-> m] :
            m \in Patched(RequiredMetricSet, GoodMetric, OddMetrics, MaxOddMetrics)}

SummaryReplies ==
  {[kind |-> "raise", text |-> <<>>],
   [kind |-> "ok", text |-> <<" ","F","i","n","e",".","\n">>]}

\* the reply to the tips or alternatives prompt: the call raises or the text
\* does not decode to an object, or an object without the key, or with n items
ListReplies ==
  {[kind |-> "raise", has_key |-> FALSE, n |-> 0],
   [kind |-> "dict", has_key |-> FALSE, n |-> 0],
   [kind |-> "dict", has_key |-> TRUE, n |-> 3]}

\* no call is issued
NoEnrichment ==
  [nutri |-> [kind |-> "unasked", text |-> <<>>],
   eco |-> [kind |-> "unasked", text |-> <<>>],
   metrics |-> [kind |-> "unasked", m |-> GoodMetrics.m],
   tips |-> [kind |-> "unasked", has_key |-> FALSE, n |-> 0],
   alternatives |-> [kind |-> "unasked", has_key |-> FALSE, n |-> 0]]

\* every combination of the five replies
Enrichments ==
  [nutri : SummaryReplies, eco : SummaryReplies, metrics : MetricsReplies,
   tips : ListReplies, alternatives : ListReplies]

\* all five calls fail, all succeed, and a metrics reply with a string score
FewEnrichments ==
  {e \in Enrichments :
     \/ \A k \in DOMAIN e : e[k].kind = "raise"
     \/ /\ \A k \in {"nutri", "eco"} : e[k].kind = "ok"
        /\ e.metrics.kind = "dict"
        /\ \A k \in RequiredMetricSet : e.metrics.m[k].has_explanation
        /\ \A k \in RequiredMetricSet : e.metrics.m[k].has_score
        /\ \A k \in RequiredMetricSet : e.metrics.m[k].t = "dict"
        /\ \A k \in RequiredMetricSet : e.metrics.m[k].score.v # 10
        /\ \A k \in {"tips", "alternatives"} : e[k].kind = "dict" /\ e[k].has_key}

\* sugar per 100 g as upstream gives it, in thousandths: around the
\* thresholds of 5 and 10, a numeric string, and values that are no number
SugarValues ==
  {[t |-> "num", v |-> 0], [t |-> "num", v |-> 5000], [t |-> "num", v |-> 5004],
   [t |-> "num", v |-> 5010], [t |-> "num", v |-> 10000], [t |-> "num", v |-> 10010],
   [t |-> "numstr", v |-> 12500], [t |-> "badstr", v |-> 0], [t |-> "absent", v |-> 0]}

SugarProducts ==
  {[BaseProduct EXCEPT !.nutriments.f["sugars_100g"] = s] : s \in SugarValues}

\* filters that name health conditions, with and without names the handler
\* does not know ("keto", "gout")
HealthFilters ==
  {[t |-> "dict", dietary |-> d, health |-> h] :
     d \in {{}, {"keto"}},
     h \in {{}, {"diabetes"}, {"gout"}, {"diabetes", "gout"}, {"hypertension"},
            {"diabetes", "hypertension"}}}

\* the functions that decode a JSON reply
Parsers == {"metrics", "tips", "alternatives"}

\* the contents of a reply: the text `json` (the JSON document {} or the
\* fragment {), alone or after prose, in an opening fence with or without
\* its closing fence, before prose
Wrapped(json) ==
  {w[1] \o w[2][1] \o json \o w[2][2] \o w[3] :
     w \in {<<>>, <<"s", "o", ":", "\n">>}
            \X {<< <<>>, <<>> >>,
                << FenceJson \o <<"\n">>, <<>> >>,
                << FenceJson \o <<"\n">>, <<"\n">> \o Fence >>,
                << Fence \o <<"\n">>, <<>> >>,
                << Fence \o <<"\n">>, <<"\n">> \o Fence >>}
            \X {<<>>, <<"\n", "o", "k">>}}

ReplyContents == Wrapped(<<"{", "}">>) \cup Wrapped(<<"{">>)

\* the requests tried, as [data, up, en]; a reply is chosen only for a call
\* the handler issues: no lookup for a rejected body, no enrichment without a
\* product or without a client
ScanInputs(cl) ==
  LET passing == {b \in ScanBodies :
                    scan_barcode(cl, b, UnaskedLookup, NoEnrichment).calls["lookup"] = 1}
      replies(few) == IF ~cl THEN {NoEnrichment}
                      ELSE IF few THEN FewEnrichments ELSE Enrichments
  IN  {[data |-> b, up |-> UnaskedLookup, en |-> NoEnrichment] : b \in ScanBodies \ passing}
        \cup {[data |-> b, up |-> u, en |-> NoEnrichment] :
                b \in passing, u \in LookupFailures}
        \cup {[data |-> b, up |-> Found(BaseProduct), en |-> e] :
                b \in passing, e \in replies(TRUE)}
        \cup {[data |-> GoodBody(f), up |-> Found(p), en |-> e] :
                f \in FewFilters, p \in Products, e \in replies(TRUE)}
        \cup {[data |-> GoodBody(NoFilters), up |-> Found(p), en |-> e] :
                p \in {BaseProduct, EmptyProduct}, e \in replies(FALSE)}
        \cup {[data |-> GoodBody(f), up |-> Found(p), en |-> e] :
                f \in HealthFilters, p \in SugarProducts,
                e \in {x \in replies(TRUE) : x.metrics.kind \in {"raise", "unasked"}}}

(* ----------------------- inputs of /find-markets ----------------------- *)

\* longest zipcode string tried
MaxZipLen == 6

\* a digit, a letter and a blank
ZipChars == {"1", "a", " "}

ZipStrings == UNION {[1..n -> ZipChars] : n \in 0..MaxZipLen}

\* request.get_json(): no object at all, or an object whose 'zipcode' is
\* missing, null, not a string, or a string
MarketBodies ==
  {[t |-> "null", zipcode |-> Absent]}
    \cup {[t |-> "dict", zipcode |-> z] :
            z \in {Absent, Null, Other} \cup {Str(s) : s \in ZipStrings}}

\* the reply of a service the handler never asked
Unasked == [kind |-> "unasked", lat |-> 0, lon |-> 0, elements |-> <<>>]

\* Nominatim: exception or HTTP error, an empty list, or a first hit
GeoReplies ==
  {[kind |-> k, lat |-> 0, lon |-> 0, elements |-> <<>>] : k \in {"error", "empty"}}
    \cup {[kind |-> "found", lat |-> 40, lon |-> -74, elements |-> <<>>]}

\* longest list of POI elements tried (one more than the cap of 10)
MaxElements == 11

\* longest list of POI elements in which an element may lack coordinates
MaxBrokenElements == 2

\* haversine distances of the elements, in hundredths of a mile
Dist100 == {4, 16}

Elements(n, allowBroken) ==
  {[i \in 1..n |-> [id |-> i, has_coords |-> f[i] # 0, dist100 |-> f[i]]] :
     f \in [1..n -> Dist100 \cup (IF allowBroken THEN {0} ELSE {})]}

\* Overpass: exception or HTTP error, or a list of elements
PoiReplies ==
  {[kind |-> "error", lat |-> 0, lon |-> 0, elements |-> <<>>]}
    \cup {[kind |-> "ok", lat |-> 0, lon |-> 0, elements |-> e] :
            e \in UNION {Elements(n, n <= MaxBrokenElements) : n \in 0..MaxElements}}

(* ------------------------------ actions -------------------------------- *)

\* one request/response exchange: r is the handler's result
Exchange(path, inputs, r) ==
  /\ route' = path
  /\ req' = inputs
  /\ status' = r.status
  /\ body' = r.body
  /\ calls' = r.calls
  /\ exc' = r.exc
  /\ UNCHANGED <<client, pool>>

\* POST /find-markets.  A reply is chosen only for a call the handler issues.
FindMarkets ==
  /\ route = "none"
  /\ UNCHANGED prev
  /\ \E data \in MarketBodies :
    IF find_markets(data, Unasked, Unasked).calls["geocode"] = 0
    THEN Exchange("/find-markets", [data |-> data, geo |-> Unasked, poi |-> Unasked],
                  find_markets(data, Unasked, Unasked))
    ELSE \E geo \in GeoReplies :
           IF geo.kind # "found"
           THEN Exchange("/find-markets", [data |-> data, geo |-> geo, poi |-> Unasked],
                         find_markets(data, geo, Unasked))
           ELSE \E poi \in PoiReplies :
                  Exchange("/find-markets", [data |-> data, geo |-> geo, poi |-> poi],
                           find_markets(data, geo, poi))

\* POST /scan: the handler runs from the request to its response
ScanStep(inputs) ==
  /\ route = "none"
  /\ \E i \in inputs :
       Exchange("/scan", i, scan_barcode(client, i.data, i.up, i.en))

Scan == ScanStep(ScanInputs(client)) /\ UNCHANGED prev

\* the requests of ScanInputs for the products that differ in ingredient
\* text and categories, and for the empty product
RepeatInputs(cl) ==
  {[data |-> GoodBody(f), up |-> Found(p), en |-> e] :
     f \in FewFilters,
     p \in {[BaseProduct EXCEPT !.ingredients_text = t, !.categories = c] :
              t \in IngredientTexts, c \in CategoryTexts} \cup {EmptyProduct},
     e \in IF cl THEN FewEnrichments ELSE {NoEnrichment}}

\* POST /scan again, after the responses noted in prev
ScanRepeat == ScanStep(RepeatInputs(client)) /\ UNCHANGED prev

\* one of the three parsers is called and the service replies `content`
ParseReply ==
  /\ route = "none"
  /\ UNCHANGED prev
  /\ \E parser \in Parsers, content \in ReplyContents :
       Exchange("reply", [data |-> [t |-> "null"], parser |-> parser, content |-> content],
                [status |-> 0, exc |-> "none",
                 calls |-> [NoCalls EXCEPT ![parser] = IF client THEN 1 ELSE 0],
                 body |-> parse_reply(client, parser, content)])

\* the response has been sent: the request-local state is dropped and the
\* worker waits for the next request
Done ==
  /\ route # "none"
  /\ route' = "none"
  /\ req' = [data |-> [t |-> "null"]]
  /\ status' = 0
  /\ body' = [success |-> FALSE]
  /\ calls' = NoCalls
  /\ exc' = "none"
  /\ UNCHANGED <<client, prev, pool>>

\* the response has been sent, and the observer notes the ingredient text,
\* the categories and the flags of a 200 response to /scan, to compare them
\* with the responses that follow
DoneNoted ==
  /\ route # "none"
  /\ route' = "none"
  /\ req' = [data |-> [t |-> "null"]]
  /\ status' = 0
  /\ body' = [success |-> FALSE]
  /\ calls' = NoCalls
  /\ exc' = "none"
  /\ prev' = IF route = "/scan" /\ status = 200
             THEN [prev EXCEPT !.seen = TRUE,
                               !.ingredients_text = req.up.product.ingredients_text,
                               !.categories = req.up.product.categories,
                               !.certifications = body.certifications]
             ELSE prev
  /\ UNCHANGED <<client, pool>>

\* the requests for products that differ in packaging and categories, with
\* metrics replies of different scores
ActionInputs(cl) ==
  {[data |-> GoodBody(NoFilters), up |-> Found(p), en |-> e] :
     p \in {[BaseProduct EXCEPT !.packaging = k, !.categories = c] :
              k \in PackagingTexts, c \in CategoryTexts},
     e \in IF cl
           THEN {x \in Enrichments :
                   /\ \A k \in {"nutri", "eco"} : x[k].kind = "ok"
                   /\ \A k \in {"tips", "alternatives"} : x[k].kind = "dict" /\ x[k].has_key
                   /\ x.metrics.kind \in {"raise", "dict"}
                   /\ \A k \in RequiredMetricSet :
                        /\ x.metrics.m[k].t = "dict"
                        /\ x.metrics.m[k].has_explanation
                        /\ x.metrics.m[k].score.t = "num"}
           ELSE {NoEnrichment}}

\* POST /scan for the products of ActionInputs
ScanActions == ScanStep(ActionInputs(client)) /\ UNCHANGED prev

\* the response has been sent, and the observer notes the packaging, the
\* categories, the overall score and the actions of a 200 response that
\* carries actions
DoneNotedActions ==
  /\ route # "none"
  /\ route' = "none"
  /\ req' = [data |-> [t |-> "null"]]
  /\ status' = 0
  /\ body' = [success |-> FALSE]
  /\ calls' = NoCalls
  /\ exc' = "none"
  /\ prev' = IF route = "/scan" /\ status = 200
                  /\ "community_impact_actions" \in DOMAIN body
             THEN [prev EXCEPT !.seen = TRUE,
                               !.packaging = req.up.product.packaging,
                               !.categories = req.up.product.categories,
                               !.overall = body.overall_sustainability_score,
                               !.actions = body.community_impact_actions]
             ELSE prev
  /\ UNCHANGED <<client, pool>>

(* ------------------ /scan step by step: the executor ------------------ *)

\* the five futures in the order of executor.submit (lines 813-817), which is
\* also the order of the .result() calls (lines 820-824)
TaskOrder == <<"nutri_summary", "eco_summary", "metrics", "tips", "alternatives">>

Tasks == {TaskOrder[i] : i \in 1..Len(TaskOrder)}

\* ThreadPoolExecutor(max_workers=4), line 811
max_workers == 4

\* the handler waits for a request; no task exists
IdlePool ==
  [pc |-> "idle",
   task |-> [t \in Tasks |-> "new"],
   queue |-> <<>>,
   collected |-> 0,
   lookups |-> 0,
   issued |-> [t \in Tasks |-> 0],
   responses |-> 0,
   status |-> 0]

\* the worker threads that are running a task
busy_workers_never_released(p) == Cardinality({t \in Tasks : p.task[t] \in {"running", "done"}})

busy_workers(p) == Cardinality({t \in Tasks : p.task[t] = "running"})

\* a queued task starts only while fewer than max_workers threads are busy
can_start_unbounded(p) == TRUE

can_start(p) == busy_workers(p) < max_workers

\* the request arrives; a body without barcode is answered 400 at once
\* (lines 684-697), otherwise the product lookup is issued (line 701)
PoolAccept ==
  /\ pool.pc = "idle"
  /\ \E valid \in BOOLEAN :
       pool' = IF valid
               THEN [pool EXCEPT !.pc = "lookup", !.lookups = @ + 1]
               ELSE [pool EXCEPT !.pc = "respond", !.status = 400]
  /\ UNCHANGED <<client, route, req, status, body, calls, exc, prev>>

\* requests.get returns or raises (lines 701-710): only a found product
\* reaches the executor
PoolLookupReturns ==
  /\ pool.pc = "lookup"
  /\ \E outcome \in {"timeout", "connection", "status0", "found"} :
       pool' = CASE outcome = "found" -> [pool EXCEPT !.pc = "submit"]
                 [] outcome = "status0" -> [pool EXCEPT !.pc = "respond", !.status = 404]
                 [] OTHER -> [pool EXCEPT !.pc = "respond", !.status = 500]
  /\ UNCHANGED <<client, route, req, status, body, calls, exc, prev>>

\* executor.submit of the next function: the future is queued
PoolSubmit ==
  /\ pool.pc = "submit"
  /\ LET k == Cardinality({t \in Tasks : pool.task[t] # "new"}) + 1
     IN  pool' = [pool EXCEPT !.task[TaskOrder[k]] = "queued",
                              !.queue = Append(@, TaskOrder[k]),
                              !.pc = IF k = Len(TaskOrder) THEN "collect" ELSE "submit"]
  /\ UNCHANGED <<client, route, req, status, body, calls, exc, prev>>

\* a free worker thread takes the oldest queued future and runs its function,
\* which issues its outbound call when the client exists
PoolStart ==
  /\ pool.queue # <<>>
  /\ can_start(pool)
  /\ pool' = [pool EXCEPT !.task[Head(pool.queue)] = "running",
                          !.queue = Tail(@),
                          !.issued[Head(pool.queue)] = @ + (IF client THEN 1 ELSE 0)]
  /\ UNCHANGED <<client, route, req, status, body, calls, exc, prev>>

\* the function of task t returns: its call answered or failed, and every
\* failure is caught inside the function
PoolFinish(t) ==
  /\ pool.task[t] = "running"
  /\ pool' = [pool EXCEPT !.task[t] = "done"]
  /\ UNCHANGED <<client, route, req, status, body, calls, exc, prev>>

\* future.result() of the next future returns once that future is done
PoolCollect ==
  /\ pool.pc = "collect"
  /\ pool.collected < Len(TaskOrder)
  /\ pool.task[TaskOrder[pool.collected + 1]] = "done"
  /\ pool' = [pool EXCEPT !.collected = @ + 1]
  /\ UNCHANGED <<client, route, req, status, body, calls, exc, prev>>

\* all results are in, the `with` block ends (shutdown waits for the
\* workers), and lines 826-899 build the 200 response or raise into a 500
PoolAssemble ==
  /\ pool.pc = "collect"
  /\ pool.collected = Len(TaskOrder)
  /\ \A t \in Tasks : pool.task[t] = "done"
  /\ \E s \in {200, 500} : pool' = [pool EXCEPT !.pc = "respond", !.status = s]
  /\ UNCHANGED <<client, route, req, status, body, calls, exc, prev>>

\* return jsonify(...), status
PoolRespond ==
  /\ pool.pc = "respond"
  /\ pool' = [pool EXCEPT !.pc = "responded", !.responses = @ + 1]
  /\ UNCHANGED <<client, route, req, status, body, calls, exc, prev>>

\* the request is over; the handler waits for the next one
PoolDone ==
  /\ pool.pc = "responded"
  /\ pool' = IdlePool
  /\ UNCHANGED <<client, route, req, status, body, calls, exc, prev>>

Init ==
  /\ client \in BOOLEAN
  /\ route = "none"
  /\ req = [data |-> [t |-> "null"]]
  /\ status = 0
  /\ body = [success |-> FALSE]
  /\ calls = NoCalls
  /\ exc = "none"
  /\ prev = [seen |-> FALSE, ingredients_text |-> Absent, categories |-> Absent,
             certifications |-> [vegan |-> FALSE, halal |-> FALSE, kosher |-> FALSE],
             packaging |-> Absent, overall |-> 0, actions |-> <<>>]
  /\ pool = IdlePool

Next == Scan \/ FindMarkets \/ Done

Spec == Init /\ [][Next]_vars

\* successive /scan requests of one worker, each 200 response noted
NextRepeat == ScanRepeat \/ DoneNoted

SpecRepeat == Init /\ [][NextRepeat]_vars

\* /scan requests for products of different packaging and categories, one
\* after the other, with the note of the last actions
NextActions == ScanActions \/ DoneNotedActions

SpecActions == Init /\ [][NextActions]_vars

\* the three parsers on replies wrapped in prose and fences
NextParse == ParseReply \/ Done

SpecParse == Init /\ [][NextParse]_vars

\* one worker serving /scan requests, the executor step by step
NextPool ==
  \/ PoolAccept
  \/ PoolLookupReturns
  \/ PoolSubmit
  \/ PoolStart
  \/ \E t \in Tasks : PoolFinish(t)
  \/ PoolCollect
  \/ PoolAssemble
  \/ PoolRespond
  \/ PoolDone

SpecPool == Init /\ [][NextPool]_vars

\* the same, when every outbound call returns or fails in the end and the
\* threads of the handler and of the executor keep running
SpecPoolFair ==
  /\ SpecPool
  /\ WF_vars(PoolLookupReturns)
  /\ WF_vars(PoolSubmit)
  /\ WF_vars(PoolStart)
  /\ \A t \in Tasks : WF_vars(PoolFinish(t))
  /\ WF_vars(PoolCollect)
  /\ WF_vars(PoolAssemble)
  /\ WF_vars(PoolRespond)
  /\ WF_vars(PoolDone)

(* ------------------------------- claims -------------------------------- *)

\* the five enrichment calls all raise
AllCallsFail ==
  [nutri |-> [kind |-> "raise", text |-> <<>>],
   eco |-> [kind |-> "raise", text |-> <<>>],
   metrics |-> [kind |-> "raise", m |-> GoodMetrics.m],
   tips |-> [kind |-> "raise", has_key |-> FALSE, n |-> 0],
   alternatives |-> [kind |-> "raise", has_key |-> FALSE, n |-> 0]]

\* C1: a /scan request for a found product that is answered 200 when all five
\* enrichment calls fail is answered 200 with success = true whatever the
\* five calls do instead: no enrichment outcome turns it into an error.
C1_EnrichmentNeverFails ==
  (/\ route = "/scan"
   /\ req.up.kind = "found"
   /\ scan_barcode(client, req.data, req.up, AllCallsFail).status = 200)
    => (status = 200 /\ body.success = TRUE)

\* C2: every 200 response of /scan carries sustainability_metrics with all 8
\* metrics, each with a score and an explanation, whether the metrics call
\* succeeded, raised, was not configured or omitted parts of a metric; a
\* metric the reply omits gets score 5 and a placeholder explanation.
C2_MetricsAlwaysComplete ==
  (route = "/scan" /\ status = 200)
    => /\ "sustainability_metrics" \in DOMAIN body
       /\ \A k \in RequiredMetricSet :
            /\ body.sustainability_metrics[k].has_score
            /\ body.sustainability_metrics[k].has_explanation
            /\ (req.en.metrics.kind = "dict" /\ req.en.metrics.m[k].t = "absent")
                 => /\ body.sustainability_metrics[k].score = [t |-> "num", v |-> 5]
                    /\ body.sustainability_metrics[k].explanation = "Data unavailable"

\* a string that is empty or blank
WhitespaceOnly(s) == \A i \in 1..Len(s) : s[i] \in {" ", "\t", "\n"}

\* the body has no barcode, or an empty or blank one
BarcodeMissing(data) ==
  \/ data.t # "dict"
  \/ data.barcode.t = "absent"
  \/ (data.barcode.t = "str" /\ WhitespaceOnly(data.barcode.s))

\* C3: /scan answers 400 exactly when the body has no barcode or a blank one,
\* 404 exactly when the barcode is there and the lookup answers "unknown",
\* 500 exactly when the lookup times out, fails on the network or something
\* unexpected is raised, and 200 with the product payload otherwise; the
\* four cases exclude each other.
C3_StatusClasses ==
  route = "/scan"
    => /\ status \in {200, 400, 404, 500}
       /\ (status = 400) <=> BarcodeMissing(req.data)
       /\ (status = 404) <=> (/\ ~BarcodeMissing(req.data)
                              /\ req.data.barcode.t = "str"
                              /\ req.up.kind = "status0")
       /\ (status = 500) <=> (exc # "none")
       /\ (exc = "Timeout") <=> (req.up.kind = "timeout")
       /\ (exc = "RequestException") <=> (req.up.kind \in {"connection", "http_error"})
       /\ (status = 200) <=> (/\ ~BarcodeMissing(req.data)
                              /\ req.up.kind = "found"
                              /\ exc = "none")
       /\ (status = 200) => (body.success = TRUE /\ "barcode" \in DOMAIN body)
       /\ (status # 200) => (body.success = FALSE)

C3_Witness_BlankBarcode ==
  /\ route = "/scan"
  /\ req.data.t = "dict"
  /\ req.data.barcode = Str(<<" ">>)
  /\ status = 400

\* the zipcode of the body is a string of exactly five digits, blanks around
\* it aside
FiveDigitZip(data) ==
  /\ data.t = "dict"
  /\ data.zipcode.t = "str"
  /\ LET z == strip(data.zipcode.s)
     IN  Len(z) = 5 /\ \A i \in 1..5 : z[i] \in {"0","1","2","3","4","5","6","7","8","9"}

\* C4: a /find-markets request whose body carries a zipcode value that is not
\* exactly 5 digits (or none) is answered 400, and neither the geocoder nor
\* the POI service was called.
C4_BadZipRejected ==
  (route = "/find-markets" /\ req.data.t = "dict" /\ ~FiveDigitZip(req.data))
    => (status = 400 /\ calls["geocode"] = 0 /\ calls["poi"] = 0)

\* C5: with a valid 5-digit ZIP, a geocoding failure or an empty geocoding
\* result gives 404 and the POI service is not called; a geocoding hit gives
\* 200 with success = true and count = len(markets), and a failing POI query
\* gives the empty market list, not an error.
C5_GeocodeDecides ==
  (route = "/find-markets" /\ FiveDigitZip(req.data))
    => /\ calls["geocode"] = 1
       /\ req.geo.kind # "found" => (status = 404 /\ calls["poi"] = 0)
       /\ req.geo.kind = "found"
            => /\ status = 200
               /\ body.success = TRUE
               /\ calls["poi"] = 1
               /\ body.count = Len(body.markets)
               /\ req.poi.kind = "error" => body.markets = <<>>

C5_Witness_PoiFailureAbsorbed ==
  /\ route = "/find-markets"
  /\ req.geo.kind = "found"
  /\ req.poi.kind = "error"
  /\ status = 200
  /\ body.count = 0

\* C6: the market list is sorted by non-decreasing one-decimal distance, has
\* at most 10 entries, and every element left out is at least as far as every
\* market returned.
C6_SortedCapped ==
  (route = "/find-markets" /\ status = 200)
    => LET ms == body.markets
           els == req.poi.elements
           returned == {ms[j].id : j \in 1..Len(ms)}
       IN  /\ Len(ms) <= 10
           /\ \A j \in 1..(Len(ms) - 1) : ms[j].distance <= ms[j + 1].distance
           /\ returned \subseteq {els[i].id : i \in 1..Len(els)}
           /\ \A i \in 1..Len(els) :
                els[i].id \notin returned
                  => \A j \in 1..Len(ms) :
                       RoundHalfEven(els[i].dist100, 10) >= ms[j].distance

\* eleven elements, ten returned, near and far ones among them, one left out
C6_Witness_Capped ==
  /\ route = "/find-markets"
  /\ status = 200
  /\ Len(req.poi.elements) = 11
  /\ req.poi.elements[1].dist100 > req.poi.elements[11].dist100
  /\ Len(body.markets) = 10
  /\ body.markets[1].distance < body.markets[10].distance

\* the ingredient text of the product, missing read as empty
TextOf(product) ==
  IF product.ingredients_text.t = "str" THEN product.ingredients_text.s ELSE <<>>

\* the flag of a keyword list: false exactly when a keyword occurs in the
\* lower-cased text
FlagFor(words, text) == ~(\E k \in 1..Len(words) : contains(lower(text), words[k]))

\* C7 as stated: empty or absent text gives three false flags; otherwise each
\* flag is false exactly when the lower-cased text contains a keyword of its
\* list.
C7_FlagsByKeywords ==
  (route = "/scan" /\ status = 200)
    => LET text == TextOf(req.up.product)
       IN  IF text = <<>>
           THEN body.certifications = [vegan |-> FALSE, halal |-> FALSE, kosher |-> FALSE]
           ELSE body.certifications =
                  [vegan |-> FlagFor(non_vegan_ingredients, text),
                   halal |-> FlagFor(non_halal_ingredients, text),
                   kosher |-> FlagFor(non_kosher_ingredients, text)]

\* C7 amended: the text "not available" (in any letter case) counts as empty:
\* empty, absent or "not available" gives three false flags; otherwise each
\* flag is false exactly when the lower-cased text contains a keyword of its
\* list; text containing "milk" gives vegan = false.
C7_FlagsByKeywordsAmended ==
  (route = "/scan" /\ status = 200)
    => LET text == TextOf(req.up.product)
       IN  /\ IF text = <<>>
                 \/ lower(text) = <<"n","o","t"," ","a","v","a","i","l","a","b","l","e">>
              THEN body.certifications =
                     [vegan |-> FALSE, halal |-> FALSE, kosher |-> FALSE]
              ELSE body.certifications =
                     [vegan |-> FlagFor(non_vegan_ingredients, text),
                      halal |-> FlagFor(non_halal_ingredients, text),
                      kosher |-> FlagFor(non_kosher_ingredients, text)]
           /\ contains(lower(text), <<"m","i","l","k">>) => ~body.certifications.vegan

C7_Witness_Milk ==
  /\ route = "/scan"
  /\ status = 200
  /\ req.up.product.ingredients_text = Str(<<"W","h","o","l","e"," ","M","I","L","K">>)
  /\ body.certifications = [vegan |-> FALSE, halal |-> TRUE, kosher |-> TRUE]

\* C8: two 200 responses of /scan for products with the same ingredient text
\* carry the same certification flags, whatever else differs between the two
\* requests.
C8_SameTextSameFlags ==
  (/\ route = "/scan"
   /\ status = 200
   /\ prev.seen
   /\ prev.ingredients_text = req.up.product.ingredients_text)
    => body.certifications = prev.certifications

\* a second response for the same text, for a product of another category
\* and a request with filters
C8_Witness_Repeat ==
  /\ route = "/scan"
  /\ status = 200
  /\ prev.seen
  /\ prev.ingredients_text = req.up.product.ingredients_text
  /\ req.up.product.ingredients_text = Str(<<"W","a","t","e","r",","," ","S","u","g","a","r">>)
  /\ req.up.product.categories = Str(<<"M","i","l","k">>)
  /\ prev.categories # req.up.product.categories
  /\ req.data.filters.t = "dict"
  /\ body.certifications.vegan

\* the response field of each nutrient and the upstream field it is read from
NutrientSource ==
  [energy |-> "energy-kcal_100g", fat |-> "fat_100g",
   carbohydrates |-> "carbohydrates_100g", proteins |-> "proteins_100g",
   salt |-> "salt_100g", fiber |-> "fiber_100g"]

\* C9: in every 200 response of /scan the nutriments object has all six
\* nutrient fields, and a nutrient upstream does not provide, provides as
\* null, or provides as a non-numeric value is the sentinel "N/A".
C9_NutrientsAlwaysPresent ==
  (route = "/scan" /\ status = 200)
    => /\ "nutriments" \in DOMAIN body
       /\ DOMAIN body.nutriments = DOMAIN NutrientSource
       /\ \A k \in DOMAIN NutrientSource :
            LET n == req.up.product.nutriments
            IN  (\/ n.t # "dict"
                 \/ n.f[NutrientSource[k]].t \in {"absent", "null", "badstr", "other"})
                  <=> body.nutriments[k].na

C9_Witness_NonNumeric ==
  /\ route = "/scan"
  /\ status = 200
  /\ req.up.product.nutriments.t = "dict"
  /\ req.up.product.nutriments.f["salt_100g"].t = "badstr"
  /\ body.nutriments.salt.na
  /\ ~body.nutriments.fat.na

\* upstream has no grade: the field is missing, null or empty
GradeMissing(g) == g.t \in {"absent", "null"} \/ (g.t = "str" /\ g.s = <<>>)

\* the request with both grades replaced by "a"
WithGrades(up) ==
  [up EXCEPT !.product.nutriscore_grade = Str(<<"a">>),
             !.product.ecoscore_grade = Str(<<"a">>)]

\* C10: when a found product has no nutriscore and/or ecoscore grade (missing,
\* empty or null) and the request would be answered 200 had it grades, the
\* response is a 200 whose grade field is "N/A"; in a 200 response the grade
\* fields are strings, the upstream grade in upper case when there is one.
C10_MissingGradeIsNA ==
  (/\ route = "/scan"
   /\ req.up.kind = "found"
   /\ scan_barcode(client, req.data, WithGrades(req.up), req.en).status = 200)
    => LET p == req.up.product
       IN  /\ GradeMissing(p.nutriscore_grade)
                => (status = 200 /\ body.nutriscore_grade = Str(<<"N","/","A">>))
           /\ GradeMissing(p.ecoscore_grade)
                => (status = 200 /\ body.ecoscore_grade = Str(<<"N","/","A">>))
           /\ status = 200
                => /\ body.nutriscore_grade.t = "str"
                   /\ body.ecoscore_grade.t = "str"
                   /\ ~GradeMissing(p.nutriscore_grade)
                        => body.nutriscore_grade.s = upper(p.nutriscore_grade.s)
                   /\ ~GradeMissing(p.ecoscore_grade)
                        => body.ecoscore_grade.s = upper(p.ecoscore_grade.s)

\* C11: the five enrichment tasks run on at most 4 workers at a time, all
\* five are started, and the response is produced only after all five have
\* finished: no response is built or sent while a task is queued or running.
C11_PoolBounded ==
  /\ Cardinality({t \in Tasks : pool.task[t] = "running"}) <= 4
  /\ (pool.pc \in {"respond", "responded"} /\ pool.status \in {200, 500}
        /\ pool.collected > 0)
       => \A t \in Tasks : pool.task[t] = "done"
  /\ pool.pc \in {"respond", "responded"}
       => \A t \in Tasks : pool.task[t] \in {"new", "done"}
  /\ pool.pc = "collect" => \A t \in Tasks : pool.task[t] # "new"
  /\ pool.status = 200 => \A t \in Tasks : pool.task[t] = "done"

\* four tasks run and the fifth waits in the queue
C11_Witness_FifthWaits ==
  /\ Cardinality({t \in Tasks : pool.task[t] = "running"}) = 4
  /\ pool.queue = <<"alternatives">>
  /\ pool.pc = "collect"

\* C13: every accepted /scan request gets a response in the end, and only
\* one, when every outbound call returns or fails: the fan-out of 5 tasks
\* over 4 workers cannot block, and the fifth task runs once a worker is free.
C13_AlwaysResponds ==
  /\ [](pool.responses <= 1)
  /\ (pool.pc # "idle") ~> (pool.pc = "responded")
  /\ (pool.task["alternatives"] = "queued") ~> (pool.task["alternatives"] = "running")

\* the fifth task started after another one had finished
C13_Witness_FifthRuns ==
  /\ pool.task["alternatives"] = "running"
  /\ \E t \in Tasks : pool.task[t] = "done"
  /\ Cardinality({t \in Tasks : pool.task[t] = "running"}) = 4

\* the outbound calls of the enrichment
EnrichmentCallNames == {"nutri_summary", "eco_summary", "metrics", "tips", "alternatives"}

\* C12: within one request every outbound call (product lookup, the five
\* enrichment calls, geocoding, POI query) is issued at most once, and a
\* product lookup that fails, times out or reports not-found is answered with
\* an error (404 or 500) without any enrichment call.
C12_NoRetry ==
  /\ \A c \in CallNames : calls[c] <= 1
  /\ (route = "/scan" /\ calls["lookup"] = 1 /\ req.up.kind # "found")
       => /\ status \in {404, 500}
          /\ body.success = FALSE
          /\ \A c \in EnrichmentCallNames : calls[c] = 0

\* a found product with a client: the lookup and all five enrichment calls
\* were issued
C12_Witness_AllIssued ==
  /\ route = "/scan"
  /\ status = 200
  /\ calls["lookup"] = 1
  /\ \A c \in EnrichmentCallNames : calls[c] = 1

\* the sum of the 8 metric scores of a response body
MetricScoreSum(b) ==
  SumSeq([i \in 1..Len(required_metrics) |->
            b.sustainability_metrics[required_metrics[i]].score.v])

\* the sum of the impact scores of the actions of a response body
ImpactScoreSum(b) ==
  SumSeq([i \in 1..Len(b.community_impact_actions) |->
            b.community_impact_actions[i].impact_score])

\* C14: in every 200 /scan response with scores (in tenths here),
\* overall_sustainability_score is the mean of the 8 metric scores times 10
\* rounded to one decimal and lies in 0..100, community_impact_score is the
\* mean of the impact scores times 10 rounded to one decimal, and
\* combined_overall_score is the mean of the two rounded to one decimal.
C14_ScoresAreMeans ==
  (route = "/scan" /\ status = 200 /\ "overall_sustainability_score" \in DOMAIN body)
    => LET o == body.overall_sustainability_score
           c == body.community_impact_score
           m == body.combined_overall_score
           d8 == 8 * o - 100 * MetricScoreSum(body)
           d5 == 5 * c - 100 * ImpactScoreSum(body)
           d2 == 2 * m - (o + c)
       IN  /\ -4 <= d8 /\ d8 <= 4
           /\ 0 <= o /\ o <= 1000
           /\ -2 <= d5 /\ d5 <= 2
           /\ -1 <= d2 /\ d2 <= 1

\* a 200 /scan response with actions follows a noted one for a product with
\* the same packaging and categories
SamePackagingAndCategories ==
  /\ prev.seen
  /\ route = "/scan"
  /\ status = 200
  /\ "community_impact_actions" \in DOMAIN body
  /\ req.up.product.packaging = prev.packaging
  /\ req.up.product.categories = prev.categories

\* C15: two /scan responses for products with the same packaging and
\* categories carry the same list of community-impact actions with the same
\* impact weights, whatever the text-generation service replied.
C15_ActionsByPackaging ==
  SamePackagingAndCategories => body.community_impact_actions = prev.actions

\* C15 amended: two such responses carry the same list of actions when, in
\* addition, their overall sustainability scores lie on the same side of 70.
C15_ActionsByPackagingAndScore ==
  (SamePackagingAndCategories
     /\ ((body.overall_sustainability_score >= 700) <=> (prev.overall >= 700)))
    => body.community_impact_actions = prev.actions

\* same packaging and categories, different metrics replies on the same side
\* of 70, same actions
C15_Witness_OtherReply ==
  /\ SamePackagingAndCategories
  /\ body.overall_sustainability_score < 700
  /\ prev.overall < body.overall_sustainability_score
  /\ body.community_impact_actions = prev.actions
  /\ body.community_impact_actions[1].impact_score = 8

\* the filter names check_health_warnings knows
KnownDietary == {"vegan", "vegetarian", "halal", "kosher", "gluten_free", "lactose_free"}

KnownHealth == {"diabetes", "hypertension", "heart_disease", "celiac", "kidney_disease"}

\* the filter that produces the warning of a title
FilterOfTitle ==
  [t \in {"Not Vegan"} |-> "vegan"]
    @@ [t \in {"Not Vegetarian"} |-> "vegetarian"]
    @@ [t \in {"May Not Be Halal"} |-> "halal"]
    @@ [t \in {"May Not Be Kosher"} |-> "kosher"]
    @@ [t \in {"Contains Gluten"} |-> "gluten_free"]
    @@ [t \in {"Contains Lactose"} |-> "lactose_free"]
    @@ [t \in {"High Sugar Content", "Moderate Sugar Content"} |-> "diabetes"]
    @@ [t \in {"High Sodium Content", "Moderate Sodium Content"} |-> "hypertension"]
    @@ [t \in {"High Saturated Fat", "Moderate Saturated Fat"} |-> "heart_disease"]
    @@ [t \in {"Contains Gluten - Unsafe for Celiac Disease"} |-> "celiac"]
    @@ [t \in {"High Protein Content", "May Contain High Phosphorus"} |-> "kidney_disease"]

\* the warnings of a response body
WarningsOf(b) == IF "health_warnings" \in DOMAIN b THEN b.health_warnings ELSE <<>>

\* how many warnings of body b have the title and the severity
CountWarnings(b, title, severity) ==
  Cardinality({i \in DOMAIN WarningsOf(b) :
                 WarningsOf(b)[i].title = title /\ WarningsOf(b)[i].severity = severity})

\* the nutriments handed to check_health_warnings for a product
NutrimentsForCheck(product) ==
  [sugars |-> round_nutrient(nutriment(product, "sugars_100g")),
   salt |-> round_nutrient(nutriment(product, "salt_100g")),
   sodium |-> round_nutrient(nutriment(product, "sodium_100g")),
   saturated_fat |-> round_nutrient(nutriment(product, "saturated-fat_100g")),
   proteins |-> round_nutrient(nutriment(product, "proteins_100g"))]

\* C16: with the diabetes filter, sugar > 10 gives exactly one high sugar
\* warning, 5 < sugar <= 10 exactly one medium one, sugar <= 5 or "N/A" none,
\* never both; every warning belongs to a filter of the request; names the
\* handler does not know raise no error and leave the warnings as they are
\* without those names.  (Requests whose metrics call fails or is not made:
\* a metrics reply can turn the response into a 500 before the warnings.)
C16_ThresholdsPerActiveFilter ==
  (route = "/scan" /\ req.up.kind = "found" /\ req.data.filters.t = "dict"
     /\ req.up.product \in SugarProducts
     /\ req.en.metrics.kind \in {"raise", "unasked"})
    => LET dietary == req.data.filters.dietary
           health == req.data.filters.health
           sugar == NutrimentsForCheck(req.up.product).sugars
           high == CountWarnings(body, "High Sugar Content", "high")
           medium == CountWarnings(body, "Moderate Sugar Content", "medium")
           sugar_warnings ==
             {i \in DOMAIN WarningsOf(body) :
                WarningsOf(body)[i].title \in {"High Sugar Content", "Moderate Sugar Content"}}
       IN  /\ status = 200
           /\ Cardinality(sugar_warnings) = high + medium
           /\ ("diabetes" \in health /\ ~sugar.na /\ sugar.v > 1000)
                => (high = 1 /\ medium = 0)
           /\ ("diabetes" \in health /\ ~sugar.na /\ sugar.v > 500 /\ sugar.v <= 1000)
                => (high = 0 /\ medium = 1)
           /\ ("diabetes" \in health /\ (sugar.na \/ sugar.v <= 500))
                => (high = 0 /\ medium = 0)
           /\ \A i \in DOMAIN WarningsOf(body) :
                /\ WarningsOf(body)[i].title \in DOMAIN FilterOfTitle
                /\ FilterOfTitle[WarningsOf(body)[i].title] \in dietary \cup health
           /\ WarningsOf(body) =
                check_health_warnings(body.ingredients.s, body.certifications,
                                      NutrimentsForCheck(req.up.product),
                                      dietary \cap KnownDietary, health \cap KnownHealth)

\* diabetes and an unknown name with sugar of 10.01 g: one high warning only
C16_Witness_HighSugar ==
  /\ route = "/scan"
  /\ status = 200
  /\ req.data.filters.t = "dict"
  /\ req.data.filters.health = {"diabetes", "gout"}
  /\ req.up.product.nutriments.f["sugars_100g"] = [t |-> "num", v |-> 10010]
  /\ WarningsOf(body) = << [title |-> "High Sugar Content", severity |-> "high"] >>

\* the content holds the JSON document {} and nothing else but prose and
\* fences around it
HoldsDocument(content) == content \in Wrapped(<<"{", "}">>)

\* the parser's result for the decoded document {}: the 8 metrics filled in
\* (lines 365-376), or the empty list of data.get(key, [])
DecodedEmptyObject(parser, result) ==
  IF parser = "metrics"
  THEN /\ ~result.none
       /\ \A k \in RequiredMetricSet : result.m[k].explanation = "Data unavailable"
  ELSE ~result.none /\ result.n = 0

\* the parser's result when the reply does not decode: the defaults of lines
\* 383-394, or None
ParserDefault(parser, result) ==
  IF parser = "metrics"
  THEN /\ ~result.none
       /\ \A k \in RequiredMetricSet :
            result.m[k].explanation = "Unable to analyze - default value"
  ELSE result.none

\* C17: for each of the three parsers a reply that holds a JSON document in
\* prose or code fences, with or without the closing fence, is decoded as
\* that document, and a reply that cannot be decoded gives the parser's
\* default.
C17_WrapperStripped ==
  (route = "reply" /\ client)
    => /\ HoldsDocument(req.content) => DecodedEmptyObject(req.parser, body)
       /\ ~HoldsDocument(req.content) => ParserDefault(req.parser, body)

\* C18: a 200 /scan response with certifications.vegan = true to a request
\* whose dietary filters include vegetarian carries no 'Not Vegetarian'
\* warning, whatever the ingredient text.
C18_VeganIsVegetarian ==
  (route = "/scan" /\ status = 200 /\ req.data.filters.t = "dict"
     /\ "vegetarian" \in req.data.filters.dietary
     /\ body.certifications.vegan)
    => \A i \in DOMAIN WarningsOf(body) : WarningsOf(body)[i].title # "Not Vegetarian"

\* C19: the community-impact actions of a response are exactly 5, each with
\* an impact score between 6 and 9, and the community impact score lies
\* between 74.0 and 80.0 (in tenths here).
C19_FiveActionsInRange ==
  (route = "/scan" /\ status = 200 /\ "community_impact_actions" \in DOMAIN body)
    => /\ Len(body.community_impact_actions) = 5
       /\ \A i \in DOMAIN body.community_impact_actions :
            /\ body.community_impact_actions[i].impact_score >= 6
            /\ body.community_impact_actions[i].impact_score <= 9
       /\ body.community_impact_score >= 740
       /\ body.community_impact_score <= 800

\* both ends are reached: a response with 74.0 after one whose actions sum
\* to 40 (80.0)
C19_Witness_BothEnds ==
  /\ route = "/scan"
  /\ status = 200
  /\ "community_impact_score" \in DOMAIN body
  /\ body.community_impact_score = 740
  /\ prev.seen
  /\ Len(prev.actions) = 5
  /\ SumSeq([i \in 1..5 |-> prev.actions[i].impact_score]) = 40

\* the five fields of the scores
ScoreFieldNames ==
  {"sustainability_metrics", "overall_sustainability_score", "community_impact_actions",
   "community_impact_score", "combined_overall_score"}

\* C20: in a 200 /scan response the five score fields are all present or all
\* absent, and they are present exactly when the metrics call of the request
\* returned a result (not None).
C20_ScoreFieldsTogether ==
  (route = "/scan" /\ status = 200)
    => /\ \/ ScoreFieldNames \subseteq DOMAIN body
          \/ ScoreFieldNames \cap DOMAIN body = {}
       /\ (ScoreFieldNames \subseteq DOMAIN body)
            <=> ~generate_sustainability_metrics(client, req.en.metrics).none

\* the metrics call failed, the defaults were returned, and the five fields
\* are in the response
C20_Witness_DefaultsScored ==
  /\ route = "/scan"
  /\ status = 200
  /\ client
  /\ req.en.metrics.kind = "raise"
  /\ ScoreFieldNames \subseteq DOMAIN body
  /\ body.overall_sustainability_score = 500

====
